---- MODULE Spec2Model ----
(***************************************************************************)
(* Model of the main application component (src/unnamed/part_000): the     *)
(* shopping cart held in component state and the related-articles slots    *)
(* computed for the active lesson.                                         *)
(*                                                                         *)
(* JavaScript arrays are modelled two ways.  `cart`, `articles` and        *)
(* `related_articles` are dense arrays and become TLA+ sequences, so the   *)
(* JavaScript index i is the TLA+ index i + 1.  `result` of                *)
(* currentRelatedArticles is written by index and may have holes, so it    *)
(* is a function whose DOMAIN is the set of JavaScript indices written.    *)
(***************************************************************************)
EXTENDS Integers, Sequences, FiniteSets

VARIABLES
    cart,                    \* useState<CartItem[]>([])
    prevCart,                \* history: the cart before the last cart operation
    lastOp,                  \* history: the last cart operation and its arguments
    articles,                \* useState<Article[]>(INITIAL_ARTICLES)
    activeLesson,            \* lessons.find(l => l.id === currentLessonId) || lessons[0]
    currentRelatedArticles,  \* the value of the useMemo, once rendered
    rendered,                \* whether the useMemo has been evaluated for these inputs
    threw,                   \* whether that evaluation raised a TypeError
    pendingUpdates,          \* React's queue of setCart updaters not yet applied
    sequentialCart,          \* history: the cart had every triggered operation been
                             \* applied at once, in event order
    clicks,                  \* history: the number of cart operations triggered
    lessons,                 \* useState<Lesson[]>(INITIAL_LESSONS)
    currentLessonId,         \* useState<number>(1)
    userProfile,             \* useState<UserProfile | null>(null)
    isAuthOpen,              \* useState(false)
    isSidebarOpen,           \* useState(false)
    lastEvent,               \* history: the last user or auth event handled
    backendLessons,          \* the rows of the table lessons_shibari
    requests,                \* the calls of handleUpdateLesson and fetchData in flight
    edits,                   \* history: the number of handleUpdateLesson calls made
    session,                 \* the session supabase.auth holds: "none" or "user"
    profileFetches,          \* the calls of fetchUserProfile in flight
    authEvents,              \* history: the number of auth events delivered
    lastAuthEvent,           \* history: the last auth event delivered
    products,                \* MarketplaceModal: the products prop
    lang,                    \* useState<'ru' | 'en'>('ru')
    selectedCategory,        \* MarketplaceModal: useState('all')
    searchQuery,             \* MarketplaceModal: useState('')
    filteredProducts,        \* MarketplaceModal: the value of the useMemo
    articleList,             \* ArticlesModal: the articles prop
    articleQuery,            \* ArticlesModal: useState('') (searchQuery)
    filteredArticles,        \* ArticlesModal: the value of the useMemo
    filterThrew              \* whether the last evaluation of a filter raised a TypeError

cartVars == <<cart, prevCart, lastOp>>
fillVars == <<articles, activeLesson, currentRelatedArticles, rendered, threw>>
batchVars == <<pendingUpdates, sequentialCart, clicks>>
lessonVars == <<currentLessonId, userProfile, isAuthOpen, isSidebarOpen, lastEvent>>
editVars == <<lessons, backendLessons, requests, edits>>
authVars == <<session, profileFetches, authEvents, lastAuthEvent>>
shopVars == <<products, lang, selectedCategory, searchQuery, filteredProducts>>
searchVars == <<articleList, articleQuery, filteredArticles, filterThrew>>

vars == <<cartVars, fillVars, batchVars, lessonVars, editVars, authVars, shopVars,
          searchVars>>

(***************************************************************************)
(* Bounds                                                                  *)
(***************************************************************************)
MaxProductId == 2
MaxQuantity == 3
MaxArticleId == 4
MaxClicks == 3
MaxLessonId == 6
MaxEdits == 2
MaxAuthEvents == 3
MaxProducts == 2
MaxListedArticles == 2

(***************************************************************************)
(* Shopping cart                                                           *)
(***************************************************************************)

\* Both MarketplaceModal (products, table market_shibari) and CoursesModal
\* (courses, table kurs_market_shibari) are handed the same addToCart, so two
\* different objects with the same id can be offered to the cart.
Tables == {"market_shibari", "kurs_market_shibari"}
ProductIds == 1..MaxProductId
Products == [id : ProductIds, table : Tables]
Deltas == (0 - MaxQuantity)..MaxQuantity

\* prev.find(item => item.product.id === product.id): 0 when there is none
FindItem(prev, productId) ==
    IF \E k \in 1..Len(prev) : prev[k].product.id = productId
    THEN CHOOSE k \in 1..Len(prev) :
            /\ prev[k].product.id = productId
            /\ \A j \in 1..(k - 1) : prev[j].product.id # productId
    ELSE 0

\* addToCart looking the entry up by object instead of by id
addToCartByObject(prev, product) ==
    IF \E k \in 1..Len(prev) : prev[k].product = product
    THEN [k \in 1..Len(prev) |->
            IF prev[k].product = product
            THEN [prev[k] EXCEPT !.quantity = prev[k].quantity + 1]
            ELSE prev[k]]
    ELSE Append(prev, [product |-> product, quantity |-> 1])

\* addToCart whose map leaves out the test on the id
addToCartIncrementAll(prev, product) ==
    IF FindItem(prev, product.id) # 0
    THEN [k \in 1..Len(prev) |-> [prev[k] EXCEPT !.quantity = prev[k].quantity + 1]]
    ELSE Append(prev, [product |-> product, quantity |-> 1])

\* the updater of addToCart
addToCart(prev, product) ==
    IF FindItem(prev, product.id) # 0
    THEN [k \in 1..Len(prev) |->
            IF prev[k].product.id = product.id
            THEN [prev[k] EXCEPT !.quantity = prev[k].quantity + 1]
            ELSE prev[k]]
    ELSE Append(prev, [product |-> product, quantity |-> 1])

\* removeFromCart taking one unit off and removing the entry at quantity 1
removeFromCartDecrement(prev, productId) ==
    LET kept == SelectSeq(prev, LAMBDA item :
                    item.product.id # productId \/ item.quantity > 1)
    IN  [k \in 1..Len(kept) |->
            IF kept[k].product.id = productId
            THEN [kept[k] EXCEPT !.quantity = kept[k].quantity - 1]
            ELSE kept[k]]

\* the updater of removeFromCart
removeFromCart(prev, productId) ==
    SelectSeq(prev, LAMBDA item : item.product.id # productId)

\* updateCartQuantity with the floor one too low (newQ < 0)
updateCartQuantityFloorZero(prev, productId, delta) ==
    [k \in 1..Len(prev) |->
        IF prev[k].product.id = productId
        THEN LET newQ == prev[k].quantity + delta
             IN  IF newQ < 0 THEN prev[k] ELSE [prev[k] EXCEPT !.quantity = newQ]
        ELSE prev[k]]

\* updateCartQuantity removing the entry that would fall below 1
updateCartQuantityRemoveBelowOne(prev, productId, delta) ==
    LET kept == SelectSeq(prev, LAMBDA item :
                    item.product.id # productId \/ item.quantity + delta >= 1)
    IN  [k \in 1..Len(kept) |->
            IF kept[k].product.id = productId
            THEN [kept[k] EXCEPT !.quantity = kept[k].quantity + delta]
            ELSE kept[k]]

\* the updater of updateCartQuantity
updateCartQuantity(prev, productId, delta) ==
    [k \in 1..Len(prev) |->
        IF prev[k].product.id = productId
        THEN LET newQ == prev[k].quantity + delta
             IN  IF newQ < 1 THEN prev[k] ELSE [prev[k] EXCEPT !.quantity = newQ]
        ELSE prev[k]]

\* cart.reduce((acc, item) => acc + item.quantity, 0)
RECURSIVE cartCount(_)
cartCount(c) ==
    IF Len(c) = 0 THEN 0 ELSE c[Len(c)].quantity + cartCount(SubSeq(c, 1, Len(c) - 1))

\* the badge of the floating cart button: {cart.length}
floatingCartBadge(c) == Len(c)

NoOp == [op |-> "none", id |-> 0, delta |-> 0, table |-> "none"]

\* the quantities of the model stay within MaxQuantity
WithinBound(c) == \A k \in 1..Len(c) : c[k].quantity <= MaxQuantity

AddToCart ==
    \E product \in Products :
        /\ WithinBound(addToCart(cart, product))
        /\ cart' = addToCart(cart, product)
        /\ prevCart' = cart
        /\ lastOp' = [op |-> "addToCart", id |-> product.id, delta |-> 0,
                      table |-> product.table]
        /\ UNCHANGED <<fillVars, batchVars, lessonVars, editVars, authVars, shopVars, searchVars>>

RemoveFromCart ==
    \E productId \in ProductIds :
        /\ cart' = removeFromCart(cart, productId)
        /\ prevCart' = cart
        /\ lastOp' = [op |-> "removeFromCart", id |-> productId, delta |-> 0,
                      table |-> "none"]
        /\ UNCHANGED <<fillVars, batchVars, lessonVars, editVars, authVars, shopVars, searchVars>>

UpdateCartQuantity ==
    \E productId \in ProductIds, delta \in Deltas :
        /\ WithinBound(updateCartQuantity(cart, productId, delta))
        /\ cart' = updateCartQuantity(cart, productId, delta)
        /\ prevCart' = cart
        /\ lastOp' = [op |-> "updateCartQuantity", id |-> productId, delta |-> delta,
                      table |-> "none"]
        /\ UNCHANGED <<fillVars, batchVars, lessonVars, editVars, authVars, shopVars, searchVars>>

\* onClear={() => setCart([])}
ClearCart ==
    /\ cart' = <<>>
    /\ prevCart' = cart
    /\ lastOp' = [op |-> "clear", id |-> 0, delta |-> 0, table |-> "none"]
    /\ UNCHANGED <<fillVars, batchVars, lessonVars, editVars, authVars, shopVars, searchVars>>

(***************************************************************************)
(* The cart handlers as React runs them: a handler only queues its updater *)
(* with setCart; the next render applies the queued updaters to the state. *)
(***************************************************************************)

\* the decrement and the increment of a quantity button
BatchDeltas == {-1, 1}

\* the updaters a click can queue
Updaters ==
    [op : {"addToCart"}, id : ProductIds, delta : {0}, table : Tables]
        \cup [op : {"removeFromCart"}, id : ProductIds, delta : {0}, table : {"none"}]
        \cup [op : {"updateCartQuantity"}, id : ProductIds, delta : BatchDeltas,
              table : {"none"}]
        \cup [op : {"clear"}, id : {0}, delta : {0}, table : {"none"}]

\* one queued update run on the state it is handed
runUpdater(state, u) ==
    CASE u.op = "addToCart" -> addToCart(state, [id |-> u.id, table |-> u.table])
      [] u.op = "removeFromCart" -> removeFromCart(state, u.id)
      [] u.op = "updateCartQuantity" -> updateCartQuantity(state, u.id, u.delta)
      [] u.op = "clear" -> <<>>

\* every update computed from the rendered state, as setCart(f(cart)) would:
\* the last one wins
applyUpdatesFromRendered(state, queue) ==
    IF Len(queue) = 0 THEN state ELSE runUpdater(state, queue[Len(queue)])

\* setCart(prev => ...): each queued updater is handed the state the one before
\* it returned
RECURSIVE applyUpdates(_, _)
applyUpdates(state, queue) ==
    IF Len(queue) = 0 THEN state
    ELSE applyUpdates(runUpdater(state, Head(queue)), Tail(queue))

\* a click on add-to-cart, remove, plus or minus, or clear: the handler queues
\* its update and returns
ClickCart ==
    \E u \in Updaters :
        /\ clicks < MaxClicks
        /\ WithinBound(runUpdater(sequentialCart, u))
        /\ pendingUpdates' = Append(pendingUpdates, u)
        /\ sequentialCart' = runUpdater(sequentialCart, u)
        /\ clicks' = clicks + 1
        /\ UNCHANGED <<cartVars, fillVars, lessonVars, editVars, authVars, shopVars, searchVars>>

\* the re-render: React applies the queued updates and empties the queue
ProcessUpdates ==
    /\ Len(pendingUpdates) > 0
    /\ cart' = applyUpdates(cart, pendingUpdates)
    /\ prevCart' = cart
    /\ lastOp' = [op |-> "render", id |-> 0, delta |-> Len(pendingUpdates),
                  table |-> "none"]
    /\ pendingUpdates' = <<>>
    /\ UNCHANGED <<sequentialCart, clicks>>
    /\ UNCHANGED <<fillVars, lessonVars, editVars, authVars, shopVars, searchVars>>

(***************************************************************************)
(* Related articles of the active lesson                                   *)
(***************************************************************************)
SlotCount == 4

ArticleIds == 1..MaxArticleId
Article(n) == [id |-> n, title |-> "Article", url |-> "/article"]

\* { id: 0, title: 'No Article', url: '#' }
NoArticle == [id |-> 0, title |-> "No Article", url |-> "#"]

\* Article collections: ids are unique (spec section 3), any order, possibly empty.
ArticleCollections ==
    { [k \in 1..Len(s) |-> Article(s[k])] :
        s \in { t \in UNION { [1..n -> ArticleIds] : n \in 0..MaxArticleId } :
                    \A i, j \in 1..Len(t) : i # j => t[i] # t[j] } }

\* related_articles entries: 0 stands for every falsy entry (0, null, undefined).
\* Every list up to the size of the grid, and lists one entry longer than the
\* grid whose entries are falsy or the id 1.
ConfigLists ==
    UNION { [1..n -> 0..MaxArticleId] : n \in 0..SlotCount }
        \cup [1..(SlotCount + 1) -> {0, 1}]

\* related_articles lists up to one entry longer than the grid, of falsy
\* entries, the id 1 and the largest id
LongConfigLists ==
    UNION { [1..n -> {0, 1, MaxArticleId}] : n \in 0..(SlotCount + 1) }

\* A lesson either has no related_articles field or has a list of entries.
Lessons == { [id |-> 1] } \cup { [id |-> 1, related_articles |-> c] : c \in ConfigLists }

LongLessons ==
    { [id |-> 1] } \cup { [id |-> 1, related_articles |-> c] : c \in LongConfigLists }

\* activeLesson.related_articles || []
ConfigIds(lesson) ==
    IF "related_articles" \in DOMAIN lesson THEN lesson.related_articles ELSE <<>>

\* configIds[i] for a JavaScript index i: undefined (falsy, 0) past the end
ConfigAt(configIds, i) == IF i + 1 <= Len(configIds) THEN configIds[i + 1] ELSE 0

\* if (id)
Truthy(id) == id # 0

\* articles.find(a => a.id === id) as an index into arts, 0 when undefined
FindArticle(arts, id) ==
    IF \E k \in 1..Len(arts) : arts[k].id = id
    THEN CHOOSE k \in 1..Len(arts) :
            /\ arts[k].id = id
            /\ \A j \in 1..(k - 1) : arts[j].id # id
    ELSE 0

\* result[i] = art on a JavaScript array that may have holes
Put(result, i, art) ==
    [j \in (DOMAIN result) \cup {i} |-> IF j = i THEN art ELSE result[j]]

\* const result: Article[] = []
EmptyArray == [j \in {} |-> NoArticle]

\* result.length
Length(result) ==
    IF DOMAIN result = {} THEN 0
    ELSE 1 + CHOOSE m \in DOMAIN result : \A j \in DOMAIN result : j <= m

\* the first loop body skipping an id that is already used
FirstPassStepSkipUsed(configIds, arts, i, st) ==
    LET id == ConfigAt(configIds, i)
        k  == FindArticle(arts, id)
    IN  IF Truthy(id) /\ k # 0 /\ id \notin st.usedIds
        THEN [result |-> Put(st.result, i, arts[k]),
              usedIds |-> st.usedIds \cup {arts[k].id}]
        ELSE st

\* the first loop body appending to the result (result.push(art)) instead of
\* writing index i
FirstPassStepPush(configIds, arts, i, st) ==
    LET id == ConfigAt(configIds, i)
        k  == FindArticle(arts, id)
    IN  IF Truthy(id) /\ k # 0
        THEN [result |-> Put(st.result, Length(st.result), arts[k]),
              usedIds |-> st.usedIds \cup {arts[k].id}]
        ELSE st

\* the body of the first loop for index i, on the pair (result, usedIds)
FirstPassStep(configIds, arts, i, st) ==
    LET id == ConfigAt(configIds, i)
        k  == FindArticle(arts, id)
    IN  IF Truthy(id) /\ k # 0
        THEN [result |-> Put(st.result, i, arts[k]),
              usedIds |-> st.usedIds \cup {arts[k].id}]
        ELSE st

\* 1. Fill Fixed Slots: for (let i = 0; i < 4; i++)
RECURSIVE FirstPassFrom(_, _, _, _)
FirstPassFrom(configIds, arts, i, st) ==
    IF i < SlotCount
    THEN FirstPassFrom(configIds, arts, i + 1, FirstPassStep(configIds, arts, i, st))
    ELSE st

FirstPass(configIds, arts) ==
    FirstPassFrom(configIds, arts, 0, [result |-> EmptyArray, usedIds |-> {}])

\* the fillers without the filter on usedIds
FillersUnfiltered(arts, usedIds) == arts

\* the fillers taken from the end of the collection
RECURSIVE Reverse(_)
Reverse(q) == IF Len(q) = 0 THEN <<>> ELSE Append(Reverse(Tail(q)), Head(q))
FillersReversed(arts, usedIds) ==
    Reverse(SelectSeq(arts, LAMBDA a : a.id \notin usedIds))

\* articles.filter(a => !usedIds.has(a.id))
Fillers(arts, usedIds) == SelectSeq(arts, LAMBDA a : a.id \notin usedIds)

\* the fallback always giving the placeholder
FallbackPlaceholder(arts) == [id |-> 0, title |-> "No Article", url |-> "#"]

\* the fallback giving the last article, and a placeholder without its title
FallbackLast(arts) ==
    IF Len(arts) > 0 THEN arts[Len(arts)] ELSE [id |-> 0, title |-> "", url |-> "#"]

\* articles[0] || { id: 0, title: 'No Article', url: '#' }
Fallback(arts) == IF Len(arts) > 0 THEN arts[1] ELSE NoArticle

\* the second loop without its else branch: no fallback once the fillers run out
RECURSIVE SecondPassNoFallback(_, _, _, _, _)
SecondPassNoFallback(arts, fillers, i, fillerIndex, result) ==
    IF i < SlotCount
    THEN IF i \notin DOMAIN result /\ fillerIndex < Len(fillers)
         THEN SecondPassNoFallback(arts, fillers, i + 1, fillerIndex + 1,
                                   Put(result, i, fillers[fillerIndex + 1]))
         ELSE SecondPassNoFallback(arts, fillers, i + 1, fillerIndex, result)
    ELSE result

\* the second loop without fillerIndex++
RECURSIVE SecondPassSameFiller(_, _, _, _, _)
SecondPassSameFiller(arts, fillers, i, fillerIndex, result) ==
    IF i < SlotCount
    THEN IF i \notin DOMAIN result
         THEN IF fillerIndex < Len(fillers)
              THEN SecondPassSameFiller(arts, fillers, i + 1, fillerIndex,
                                        Put(result, i, fillers[fillerIndex + 1]))
              ELSE SecondPassSameFiller(arts, fillers, i + 1, fillerIndex,
                                        Put(result, i, Fallback(arts)))
         ELSE SecondPassSameFiller(arts, fillers, i + 1, fillerIndex, result)
    ELSE result

\* 2. Fill Empty Slots: for (let i = 0; i < 4; i++), with fillerIndex
RECURSIVE SecondPassFrom(_, _, _, _, _)
SecondPassFrom(arts, fillers, i, fillerIndex, result) ==
    IF i < SlotCount
    THEN IF i \notin DOMAIN result
         THEN IF fillerIndex < Len(fillers)
              THEN SecondPassFrom(arts, fillers, i + 1, fillerIndex + 1,
                                  Put(result, i, fillers[fillerIndex + 1]))
              ELSE SecondPassFrom(arts, fillers, i + 1, fillerIndex,
                                  Put(result, i, Fallback(arts)))
         ELSE SecondPassFrom(arts, fillers, i + 1, fillerIndex, result)
    ELSE result

\* the function of the useMemo
RelatedArticles(lesson, arts) ==
    LET first == FirstPass(ConfigIds(lesson), arts)
    IN  SecondPassFrom(arts, Fillers(arts, first.usedIds), 0, 0, first.result)

\* the first loop reading art.id without the test if (art)
FirstPassStepThrowsUnguarded(configIds, arts, i) ==
    LET id    == ConfigAt(configIds, i)
        k     == FindArticle(arts, id)
        reads == Truthy(id)
    IN  reads /\ k = 0

\* art.id is read in the first loop at index i when both ifs pass, if (id) and
\* if (art); reading it raises a TypeError when art is undefined
FirstPassStepThrows(configIds, arts, i) ==
    LET id    == ConfigAt(configIds, i)
        k     == FindArticle(arts, id)
        reads == Truthy(id) /\ k # 0
    IN  reads /\ k = 0

\* whether the function of the useMemo raises
RelatedArticlesThrows(lesson, arts) ==
    \E i \in 0..(SlotCount - 1) : FirstPassStepThrows(ConfigIds(lesson), arts, i)

\* a render evaluates the useMemo for the current activeLesson and articles
Render ==
    /\ ~rendered
    /\ threw' = RelatedArticlesThrows(activeLesson, articles)
    /\ currentRelatedArticles' =
          IF threw' THEN currentRelatedArticles
          ELSE RelatedArticles(activeLesson, articles)
    /\ rendered' = TRUE
    /\ UNCHANGED <<articles, activeLesson>>
    /\ UNCHANGED <<cartVars, batchVars, lessonVars, editVars, authVars, shopVars, searchVars>>

(***************************************************************************)
(* Lesson selection and the lock on lessons                                *)
(***************************************************************************)
FreeLessons == 4

\* Lesson lists are ordered by id (.order('id')), ids are unique, and there is
\* at least one lesson.
LessonLists ==
    { [k \in 1..Len(s) |-> [id |-> s[k]]] :
        s \in { t \in UNION { [1..n -> 1..MaxLessonId] : n \in 1..MaxLessonId } :
                    \A i, j \in 1..Len(t) : i < j => t[i] < t[j] } }

\* userProfile is null or the row of user_shibari
Profiles == {"null", "profile"}

NoEvent == [type |-> "none", index |-> 0, before |-> 0]

\* off by one: the lesson at index 4 is still free
isLockedAfterFive(profile, index) == profile = "null" /\ index > FreeLessons

\* const isLocked = !userProfile && index >= 4
isLocked(profile, index) == profile = "null" /\ index >= FreeLessons

\* lessons.find(l => l.id === currentLessonId) || lessons[0]
ActiveLesson(ls, id) ==
    IF \E k \in 1..Len(ls) : ls[k].id = id
    THEN ls[CHOOSE k \in 1..Len(ls) :
                /\ ls[k].id = id
                /\ \A j \in 1..(k - 1) : ls[j].id # id]
    ELSE ls[1]

\* onClick={() => handleLessonClick(lesson.id, isLocked)} on the button of the
\* lesson at a JavaScript index of the list
ClickLesson ==
    \E index \in 0..(Len(lessons) - 1) :
        /\ IF isLocked(userProfile, index)
           THEN /\ isAuthOpen' = TRUE
                /\ UNCHANGED <<currentLessonId, isSidebarOpen>>
           ELSE /\ currentLessonId' = lessons[index + 1].id
                /\ isSidebarOpen' = FALSE
                /\ UNCHANGED isAuthOpen
        /\ lastEvent' = [type |-> "lessonClick", index |-> index,
                         before |-> currentLessonId]
        /\ UNCHANGED userProfile
        /\ UNCHANGED <<cartVars, fillVars, batchVars, editVars, authVars, shopVars, searchVars>>

\* the menu button of the mobile header: setIsSidebarOpen(true)
OpenSidebar ==
    /\ ~isSidebarOpen
    /\ isSidebarOpen' = TRUE
    /\ lastEvent' = [type |-> "openSidebar", index |-> 0, before |-> currentLessonId]
    /\ UNCHANGED <<currentLessonId, userProfile, isAuthOpen>>
    /\ UNCHANGED <<cartVars, fillVars, batchVars, editVars, authVars, shopVars, searchVars>>

\* the login button without a profile: setIsAuthOpen(true)
OpenAuth ==
    /\ userProfile = "null"
    /\ ~isAuthOpen
    /\ isAuthOpen' = TRUE
    /\ lastEvent' = [type |-> "openAuth", index |-> 0, before |-> currentLessonId]
    /\ UNCHANGED <<currentLessonId, userProfile, isSidebarOpen>>
    /\ UNCHANGED <<cartVars, fillVars, batchVars, editVars, authVars, shopVars, searchVars>>

\* AuthOverlay onClose: setIsAuthOpen(false)
CloseAuth ==
    /\ isAuthOpen
    /\ isAuthOpen' = FALSE
    /\ lastEvent' = [type |-> "closeAuth", index |-> 0, before |-> currentLessonId]
    /\ UNCHANGED <<currentLessonId, userProfile, isSidebarOpen>>
    /\ UNCHANGED <<cartVars, fillVars, batchVars, editVars, authVars, shopVars, searchVars>>

\* SIGNED_IN, TOKEN_REFRESHED or USER_UPDATED: fetchUserProfile sets the profile
SignedIn ==
    /\ userProfile' = "profile"
    /\ lastEvent' = [type |-> "SIGNED_IN", index |-> 0, before |-> currentLessonId]
    /\ UNCHANGED <<currentLessonId, isAuthOpen, isSidebarOpen>>
    /\ UNCHANGED <<cartVars, fillVars, batchVars, editVars, authVars, shopVars, searchVars>>

\* SIGNED_OUT: setUserProfile(null)
SignedOut ==
    /\ userProfile # "null"
    /\ userProfile' = "null"
    /\ lastEvent' = [type |-> "SIGNED_OUT", index |-> 0, before |-> currentLessonId]
    /\ UNCHANGED <<currentLessonId, isAuthOpen, isSidebarOpen>>
    /\ UNCHANGED <<cartVars, fillVars, batchVars, editVars, authVars, shopVars, searchVars>>

(***************************************************************************)
(* Lesson editing: handleUpdateLesson and the fetchData it falls back on   *)
(***************************************************************************)

\* the values an edit gives the field it changes
Titles == {"a", "b"}

\* the lessons shown when editing starts
EditLessons == <<[id |-> 1, title |-> "a"], [id |-> 2, title |-> "a"]>>

\* prev.map(l => l.id === id ? { ...l, ...data } : l), also the effect of
\* update(data).eq('id', id) on the rows of the table
withEdit(ls, id, title) ==
    [k \in 1..Len(ls) |->
        IF ls[k].id = id THEN [ls[k] EXCEPT !.title = title] ELSE ls[k]]

Request(kind, n, id, title, phase, data) ==
    [kind |-> kind, n |-> n, id |-> id, title |-> title, phase |-> phase, data |-> data]

\* handleUpdateLesson(id, data) up to its await: the optimistic setLessons and
\* the update request sent
HandleUpdateLesson ==
    \E k \in 1..Len(lessons), title \in Titles :
        /\ edits < MaxEdits
        /\ lessons' = withEdit(lessons, lessons[k].id, title)
        /\ requests' = requests \cup
              {Request("update", edits + 1, lessons[k].id, title, "sent", <<>>)}
        /\ edits' = edits + 1
        /\ lastEvent' = [type |-> "handleUpdateLesson", id |-> lessons[k].id,
                         title |-> title]
        /\ UNCHANGED backendLessons
        /\ UNCHANGED <<currentLessonId, userProfile, isAuthOpen, isSidebarOpen>>
        /\ UNCHANGED <<cartVars, fillVars, batchVars, authVars, shopVars, searchVars>>

\* the update is written and answers without error: the handler returns
UpdateSucceeds ==
    \E r \in requests :
        /\ r.kind = "update"
        /\ backendLessons' = withEdit(backendLessons, r.id, r.title)
        /\ requests' = requests \ {r}
        /\ lastEvent' = [type |-> "updateOk", id |-> r.id, title |-> r.title]
        /\ UNCHANGED <<lessons, edits>>
        /\ UNCHANGED <<currentLessonId, userProfile, isAuthOpen, isSidebarOpen>>
        /\ UNCHANGED <<cartVars, fillVars, batchVars, authVars, shopVars, searchVars>>

\* the update answers with an error (or throws): catch, alert, fetchData()
\* sends the select on lessons_shibari
UpdateFails ==
    \E r \in requests :
        /\ r.kind = "update"
        /\ requests' = (requests \ {r}) \cup
              {Request("fetch", r.n, r.id, r.title, "sent", <<>>)}
        /\ lastEvent' = [type |-> "updateError", id |-> r.id, title |-> r.title]
        /\ UNCHANGED <<lessons, backendLessons, edits>>
        /\ UNCHANGED <<currentLessonId, userProfile, isAuthOpen, isSidebarOpen>>
        /\ UNCHANGED <<cartVars, fillVars, batchVars, authVars, shopVars, searchVars>>

\* the select is answered: with the rows of the table as they are now, or with
\* data null when the request fails (modelled as no rows: lData && lData.length
\* treats both alike)
FetchAnswered ==
    \E r \in requests, data \in {backendLessons, <<>>} :
        /\ r.kind = "fetch"
        /\ r.phase = "sent"
        /\ requests' = (requests \ {r}) \cup
              {Request("fetch", r.n, r.id, r.title, "answered", data)}
        /\ lastEvent' = [type |-> "fetchAnswered", id |-> r.id, title |-> r.title]
        /\ UNCHANGED <<lessons, backendLessons, edits>>
        /\ UNCHANGED <<currentLessonId, userProfile, isAuthOpen, isSidebarOpen>>
        /\ UNCHANGED <<cartVars, fillVars, batchVars, authVars, shopVars, searchVars>>

\* the guard dropped: setLessons(lData) whatever was answered
setLessonsAlways(prev, lData) == lData

\* if (lData && lData.length) setLessons(lData): the lessons after the line,
\* lData being <<>> for null and for an empty result
setLessonsIfAny(prev, lData) == IF Len(lData) > 0 THEN lData ELSE prev

\* fetchData resumes after the select on lessons_shibari
FetchApplied ==
    \E r \in requests :
        /\ r.kind = "fetch"
        /\ r.phase = "answered"
        /\ lessons' = setLessonsIfAny(lessons, r.data)
        /\ requests' = requests \ {r}
        /\ lastEvent' = [type |-> "fetchApplied", id |-> r.id, title |-> r.title,
                         data |-> r.data, before |-> lessons]
        /\ UNCHANGED <<backendLessons, edits>>
        /\ UNCHANGED <<currentLessonId, userProfile, isAuthOpen, isSidebarOpen>>
        /\ UNCHANGED <<cartVars, fillVars, batchVars, authVars, shopVars, searchVars>>

(***************************************************************************)
(* Authentication: the auth events and fetchUserProfile                    *)
(***************************************************************************)

\* a call of fetchUserProfile suspended at one of its awaits: "getSession",
\* "select" (the row of user_shibari) or "insert" (the default profile)
ProfileFetch(n, phase) == [n |-> n, phase |-> phase]

\* the fetch f moved on to another await
Moved(f, phase) == (profileFetches \ {f}) \cup {ProfileFetch(f.n, phase)}

\* supabase signs the user in: SIGNED_IN is delivered and the handler calls
\* fetchUserProfile()
AuthSignedIn ==
    /\ authEvents < MaxAuthEvents
    /\ session = "none"
    /\ session' = "user"
    /\ profileFetches' = profileFetches \cup {ProfileFetch(authEvents + 1, "getSession")}
    /\ authEvents' = authEvents + 1
    /\ lastAuthEvent' = "SIGNED_IN"
    /\ UNCHANGED lessonVars
    /\ UNCHANGED <<cartVars, fillVars, batchVars, editVars, shopVars, searchVars>>

\* TOKEN_REFRESHED or USER_UPDATED while signed in: fetchUserProfile()
AuthRefreshed ==
    \E event \in {"TOKEN_REFRESHED", "USER_UPDATED"} :
        /\ authEvents < MaxAuthEvents
        /\ session = "user"
        /\ profileFetches' =
              profileFetches \cup {ProfileFetch(authEvents + 1, "getSession")}
        /\ authEvents' = authEvents + 1
        /\ lastAuthEvent' = event
        /\ UNCHANGED session
        /\ UNCHANGED lessonVars
        /\ UNCHANGED <<cartVars, fillVars, batchVars, editVars, shopVars, searchVars>>

\* supabase.auth.signOut(): the session is dropped, SIGNED_OUT is delivered and
\* the handler calls setUserProfile(null)
AuthSignedOut ==
    /\ authEvents < MaxAuthEvents
    /\ session = "user"
    /\ session' = "none"
    /\ userProfile' = "null"
    /\ authEvents' = authEvents + 1
    /\ lastAuthEvent' = "SIGNED_OUT"
    /\ UNCHANGED profileFetches
    /\ UNCHANGED <<currentLessonId, isAuthOpen, isSidebarOpen, lastEvent>>
    /\ UNCHANGED <<cartVars, fillVars, batchVars, editVars, shopVars, searchVars>>

\* getSession() resolves: with a user the select on user_shibari is sent,
\* without one setUserProfile(null)
GetSessionAnswered ==
    \E f \in profileFetches :
        /\ f.phase = "getSession"
        /\ IF session = "user"
           THEN /\ profileFetches' = Moved(f, "select")
                /\ UNCHANGED userProfile
           ELSE /\ profileFetches' = profileFetches \ {f}
                /\ userProfile' = "null"
        /\ UNCHANGED <<session, authEvents, lastAuthEvent>>
        /\ UNCHANGED <<currentLessonId, isAuthOpen, isSidebarOpen, lastEvent>>
        /\ UNCHANGED <<cartVars, fillVars, batchVars, editVars, shopVars, searchVars>>

\* the select resolves: with the row setUserProfile(profile); without a row
\* the default profile is inserted; a rejection is caught and logged
ProfileSelectAnswered ==
    \E f \in profileFetches, outcome \in {"row", "no row", "rejected"} :
        /\ f.phase = "select"
        /\ profileFetches' =
              IF outcome = "no row" THEN Moved(f, "insert") ELSE profileFetches \ {f}
        /\ userProfile' = IF outcome = "row" THEN "profile" ELSE userProfile
        /\ UNCHANGED <<session, authEvents, lastAuthEvent>>
        /\ UNCHANGED <<currentLessonId, isAuthOpen, isSidebarOpen, lastEvent>>
        /\ UNCHANGED <<cartVars, fillVars, batchVars, editVars, shopVars, searchVars>>

\* the insert resolves (its error, if any, is not looked at):
\* setUserProfile(newProfile); a rejection is caught and logged
ProfileInsertAnswered ==
    \E f \in profileFetches, outcome \in {"resolved", "rejected"} :
        /\ f.phase = "insert"
        /\ profileFetches' = profileFetches \ {f}
        /\ userProfile' = IF outcome = "resolved" THEN "profile" ELSE userProfile
        /\ UNCHANGED <<session, authEvents, lastAuthEvent>>
        /\ UNCHANGED <<currentLessonId, isAuthOpen, isSidebarOpen, lastEvent>>
        /\ UNCHANGED <<cartVars, fillVars, batchVars, editVars, shopVars, searchVars>>

(***************************************************************************)
(* Text: JavaScript strings as sequences of characters                     *)
(***************************************************************************)

\* a field that is undefined or null
Null == <<"null">>

\* String.prototype.toLowerCase on the characters of the model
LowerChar(c) == IF c = "A" THEN "a" ELSE IF c = "B" THEN "b" ELSE c
toLowerCaseIdentity(str) == str
toLowerCase(str) == [k \in 1..Len(str) |-> LowerChar(str[k])]

\* String.prototype.includes
includes(str, q) ==
    \E i \in 0..(Len(str) - Len(q)) : SubSeq(str, i + 1, i + Len(q)) = q

\* String.prototype.trim: white space taken off both ends
RECURSIVE trim(_)
trim(str) ==
    IF Len(str) = 0 THEN str
    ELSE IF Head(str) = " " THEN trim(Tail(str))
    ELSE IF str[Len(str)] = " " THEN trim(SubSeq(str, 1, Len(str) - 1))
    ELSE str

\* a string in a condition: undefined, null and '' are falsy
TruthyText(v) == v # Null /\ v # <<>>

\* field + '_en'
En(field) ==
    CASE field = "title" -> "title_en"
      [] field = "description_short" -> "description_short_en"
      [] field = "description" -> "description_en"

\* getData: if (lang === 'en' && item[field + '_en']) return item[field + '_en'];
\* return item[field]
getData(l, item, field) ==
    IF l = "en" /\ TruthyText(item[En(field)]) THEN item[En(field)] ELSE item[field]

\* what is typed into a search box
Queries == {<<>>, <<"a">>, <<"B">>, <<"a", "B">>}

(***************************************************************************)
(* MarketplaceModal: the category list and the product filter              *)
(***************************************************************************)

\* 'all', the category selected at first
All == <<"a", "l", "l">>

\* title and description_short are strings of every product; title_en may be
\* missing
ProductTexts ==
    { [title |-> <<"A">>, title_en |-> Null, description_short |-> <<>>],
      [title |-> <<"a", "b">>, title_en |-> <<"B">>, description_short |-> <<>>],
      [title |-> <<"A">>, title_en |-> Null, description_short |-> <<"b">>] }

\* category is optional and is stored as it was typed
ProductCategories == {Null, <<"a">>, <<" ", "a">>, <<"b">>, <<" ">>}

ProductRow(id, text, category) ==
    [id |-> id, title |-> text.title, title_en |-> text.title_en,
     description_short |-> text.description_short, description_short_en |-> Null,
     category |-> category]

\* the rows of market_shibari ordered by id
ProductLists ==
    UNION { { [k \in 1..n |-> ProductRow(k, texts[k], cats[k])] :
                texts \in [1..n -> ProductTexts], cats \in [1..n -> ProductCategories] } :
            n \in 0..MaxProducts }

\* dynamicCategories, as the set of its entries (their order is the sort's)
dynamicCategories(ps) ==
    { trim(ps[k].category) :
        k \in { j \in 1..Len(ps) :
                  TruthyText(ps[j].category) /\ trim(ps[j].category) # <<>> } }

\* the filter comparing the trimmed category
keepsTrimmed(l, p, category, rawQuery) ==
    LET title == toLowerCase(getData(l, p, "title"))
        desc == toLowerCase(getData(l, p, "description_short"))
        query == toLowerCase(rawQuery)
    IN  IF TruthyText(query) /\ ~includes(title, query) /\ ~includes(desc, query)
        THEN FALSE
        ELSE IF category = All THEN TRUE
        ELSE p.category # Null /\ trim(p.category) = category

\* the filter searching the title only
keepsTitleOnly(l, p, category, rawQuery) ==
    LET title == toLowerCase(getData(l, p, "title"))
        query == toLowerCase(rawQuery)
    IN  IF TruthyText(query) /\ ~includes(title, query)
        THEN FALSE
        ELSE IF category = All THEN TRUE
        ELSE p.category = category

\* the callback of products.filter in filteredProducts
keeps(l, p, category, rawQuery) ==
    LET title == toLowerCase(getData(l, p, "title"))
        desc == toLowerCase(getData(l, p, "description_short"))
        query == toLowerCase(rawQuery)
    IN  IF TruthyText(query) /\ ~includes(title, query) /\ ~includes(desc, query)
        THEN FALSE
        ELSE IF category = All THEN TRUE
        ELSE p.category = category

\* the useMemo filteredProducts
filterProducts(ps, l, category, rawQuery) ==
    SelectSeq(ps, LAMBDA p : keeps(l, p, category, rawQuery))

\* onChange of the search box: setSearchQuery(e.target.value)
SetSearchQuery ==
    \E q \in Queries :
        /\ q # searchQuery
        /\ searchQuery' = q
        /\ filteredProducts' = filterProducts(products, lang, selectedCategory, q)
        /\ UNCHANGED <<products, lang, selectedCategory>>
        /\ UNCHANGED <<cartVars, fillVars, batchVars, lessonVars, editVars, authVars, searchVars>>

\* the 'all' button and the buttons of dynamicCategories: setSelectedCategory
SetSelectedCategory ==
    \E cat \in dynamicCategories(products) \cup {All} :
        /\ cat # selectedCategory
        /\ selectedCategory' = cat
        /\ filteredProducts' = filterProducts(products, lang, cat, searchQuery)
        /\ UNCHANGED <<products, lang, searchQuery>>
        /\ UNCHANGED <<cartVars, fillVars, batchVars, lessonVars, editVars, authVars, searchVars>>

\* 'Clear filters', shown when no product is found
ClearFilters ==
    /\ Len(filteredProducts) = 0
    /\ searchQuery' = <<>>
    /\ selectedCategory' = All
    /\ filteredProducts' = filterProducts(products, lang, All, <<>>)
    /\ UNCHANGED <<products, lang>>
    /\ UNCHANGED <<cartVars, fillVars, batchVars, lessonVars, editVars, authVars, searchVars>>

(***************************************************************************)
(* ArticlesModal: the article search                                       *)
(***************************************************************************)

\* title, description and their translations may each be missing
ArticleRows ==
    { [title |-> Null, title_en |-> Null, description |-> Null, description_en |-> Null],
      [title |-> Null, title_en |-> Null, description |-> <<"b">>, description_en |-> Null],
      [title |-> <<"A">>, title_en |-> Null, description |-> Null, description_en |-> Null],
      [title |-> <<"a", "b">>, title_en |-> <<"B">>, description |-> Null,
       description_en |-> Null],
      [title |-> <<"A">>, title_en |-> Null, description |-> <<"b">>,
       description_en |-> <<"a">>] }

ArticleLists == UNION { [1..n -> ArticleRows] : n \in 0..MaxListedArticles }

\* v.toLowerCase() without the optional chaining: a TypeError on a missing field
lowerThrowsUnguarded(v) == v = Null

\* whether v?.toLowerCase() raises a TypeError
lowerThrows(v) == FALSE

\* v?.toLowerCase() || ''
lowerOrEmpty(v) == IF v = Null THEN <<>> ELSE toLowerCase(v)

\* the search matching the description only
matchesDescriptionOnly(l, a, lowerQ) ==
    includes(lowerOrEmpty(getData(l, a, "description")), lowerQ)

\* the callback of articles.filter in filteredArticles
matches(l, a, lowerQ) ==
    LET title == lowerOrEmpty(getData(l, a, "title"))
        desc == lowerOrEmpty(getData(l, a, "description"))
    IN  includes(title, lowerQ) \/ includes(desc, lowerQ)

\* the useMemo filteredArticles
filterArticles(as, l, rawQuery) ==
    IF ~TruthyText(rawQuery) THEN as
    ELSE LET lowerQ == toLowerCase(rawQuery)
         IN  SelectSeq(as, LAMBDA a : matches(l, a, lowerQ))

\* whether the useMemo raises a TypeError
filterArticlesThrows(as, l, rawQuery) ==
    /\ TruthyText(rawQuery)
    /\ \E k \in 1..Len(as) :
          \/ lowerThrows(getData(l, as[k], "title"))
          \/ lowerThrows(getData(l, as[k], "description"))

\* the render of ArticlesModal with a query and a language
RenderArticles(l, rawQuery) ==
    /\ filterThrew' = filterArticlesThrows(articleList, l, rawQuery)
    /\ filteredArticles' =
          IF filterThrew' THEN filteredArticles
          ELSE filterArticles(articleList, l, rawQuery)

\* onChange of the search box of ArticlesModal: setSearchQuery(e.target.value)
SetArticleQuery ==
    \E q \in Queries :
        /\ q # articleQuery
        /\ articleQuery' = q
        /\ RenderArticles(lang, q)
        /\ UNCHANGED articleList
        /\ UNCHANGED <<cartVars, fillVars, batchVars, lessonVars, editVars, authVars, shopVars>>

\* the button shown when no article is found: setSearchQuery('')
ClearArticleQuery ==
    /\ Len(filteredArticles) = 0
    /\ articleQuery # <<>>
    /\ articleQuery' = <<>>
    /\ RenderArticles(lang, <<>>)
    /\ UNCHANGED articleList
    /\ UNCHANGED <<cartVars, fillVars, batchVars, lessonVars, editVars, authVars, shopVars>>

\* the language button: setLang(lang === 'ru' ? 'en' : 'ru'); both modals are
\* rendered again
SetLang ==
    /\ lang' = IF lang = "ru" THEN "en" ELSE "ru"
    /\ filteredProducts' = filterProducts(products, lang', selectedCategory, searchQuery)
    /\ RenderArticles(lang', articleQuery)
    /\ UNCHANGED <<products, selectedCategory, searchQuery, articleList, articleQuery>>
    /\ UNCHANGED <<cartVars, fillVars, batchVars, lessonVars, editVars, authVars>>

(***************************************************************************)
(* Specifications                                                          *)
(***************************************************************************)
\* the state of the parts a specification leaves alone
IdleCart ==
    /\ cart = <<>>
    /\ prevCart = <<>>
    /\ lastOp = NoOp

IdleFill ==
    /\ articles = <<>>
    /\ activeLesson = [id |-> 1]
    /\ currentRelatedArticles = EmptyArray
    /\ rendered = FALSE
    /\ threw = FALSE

IdleBatch ==
    /\ pendingUpdates = <<>>
    /\ sequentialCart = <<>>
    /\ clicks = 0

IdleLesson ==
    /\ currentLessonId = 1
    /\ userProfile = "null"
    /\ isAuthOpen = FALSE
    /\ isSidebarOpen = FALSE
    /\ lastEvent = NoEvent

IdleEdit ==
    /\ lessons = <<[id |-> 1]>>
    /\ backendLessons = <<>>
    /\ requests = {}
    /\ edits = 0

IdleAuth ==
    /\ session = "none"
    /\ profileFetches = {}
    /\ authEvents = 0
    /\ lastAuthEvent = "none"

IdleShop ==
    /\ products = <<>>
    /\ lang = "ru"
    /\ selectedCategory = All
    /\ searchQuery = <<>>
    /\ filteredProducts = <<>>

IdleSearch ==
    /\ articleList = <<>>
    /\ articleQuery = <<>>
    /\ filteredArticles = <<>>
    /\ filterThrew = FALSE

IdleRest ==
    /\ IdleAuth
    /\ IdleShop
    /\ IdleSearch

InitCart ==
    /\ IdleCart
    /\ IdleFill
    /\ IdleBatch
    /\ IdleLesson
    /\ IdleEdit
    /\ IdleRest

NextCart == AddToCart \/ RemoveFromCart \/ UpdateCartQuantity \/ ClearCart

\* the cart under every sequence of cart operations
SpecCart == InitCart /\ [][NextCart]_vars

InitBatch ==
    /\ IdleCart
    /\ IdleFill
    /\ IdleBatch
    /\ IdleLesson
    /\ IdleEdit
    /\ IdleRest

NextBatch == ClickCart \/ ProcessUpdates

\* the cart under clicks whose updates are queued until the next render
SpecBatch == InitBatch /\ [][NextBatch]_vars

InitLesson ==
    /\ IdleCart
    /\ IdleFill
    /\ IdleBatch
    /\ currentLessonId = 1
    /\ userProfile = "null"
    /\ isAuthOpen = FALSE
    /\ isSidebarOpen = FALSE
    /\ lastEvent = NoEvent
    /\ lessons \in LessonLists
    /\ backendLessons = <<>>
    /\ requests = {}
    /\ edits = 0
    /\ IdleRest

NextLesson ==
    ClickLesson \/ OpenSidebar \/ OpenAuth \/ CloseAuth \/ SignedIn \/ SignedOut

\* lesson selection by a visitor who may sign in and out
SpecLesson == InitLesson /\ [][NextLesson]_vars

\* the lessons were loaded from the table, or the table is empty and the
\* lessons are the built-in ones
InitEdit ==
    /\ IdleCart
    /\ IdleFill
    /\ IdleBatch
    /\ IdleLesson
    /\ lessons = EditLessons
    /\ backendLessons \in {EditLessons, <<>>}
    /\ requests = {}
    /\ edits = 0
    /\ IdleRest

NextEdit ==
    HandleUpdateLesson \/ UpdateSucceeds \/ UpdateFails \/ FetchAnswered \/ FetchApplied

\* lesson edits and the requests they leave in flight
SpecEdit == InitEdit /\ [][NextEdit]_vars

\* the profile is fetched once on mount; a session may be left from an earlier
\* visit
InitAuth ==
    /\ IdleCart
    /\ IdleFill
    /\ IdleBatch
    /\ IdleLesson
    /\ IdleEdit
    /\ IdleShop
    /\ IdleSearch
    /\ session \in {"none", "user"}
    /\ profileFetches = {ProfileFetch(0, "getSession")}
    /\ authEvents = 0
    /\ lastAuthEvent = "none"

NextAuth ==
    \/ AuthSignedIn
    \/ AuthRefreshed
    \/ AuthSignedOut
    \/ GetSessionAnswered
    \/ ProfileSelectAnswered
    \/ ProfileInsertAnswered

\* sign-in, sign-out and the profile fetches they leave in flight
SpecAuth == InitAuth /\ [][NextAuth]_vars

InitMarket ==
    /\ IdleCart
    /\ IdleFill
    /\ IdleBatch
    /\ IdleLesson
    /\ IdleEdit
    /\ IdleAuth
    /\ IdleSearch
    /\ products \in ProductLists
    /\ lang = "ru"
    /\ selectedCategory = All
    /\ searchQuery = <<>>
    /\ filteredProducts = filterProducts(products, lang, selectedCategory, searchQuery)

NextMarket == SetSearchQuery \/ SetSelectedCategory \/ ClearFilters \/ SetLang

\* the marketplace with its search box and category buttons
SpecMarket == InitMarket /\ [][NextMarket]_vars

InitSearch ==
    /\ IdleCart
    /\ IdleFill
    /\ IdleBatch
    /\ IdleLesson
    /\ IdleEdit
    /\ IdleAuth
    /\ IdleShop
    /\ articleList \in ArticleLists
    /\ articleQuery = <<>>
    /\ filteredArticles = filterArticles(articleList, lang, articleQuery)
    /\ filterThrew = FALSE

NextSearch == SetArticleQuery \/ ClearArticleQuery \/ SetLang

\* the article list with its search box
SpecSearch == InitSearch /\ [][NextSearch]_vars

InitFill ==
    /\ IdleCart
    /\ articles \in ArticleCollections
    /\ activeLesson \in Lessons
    /\ currentRelatedArticles = EmptyArray
    /\ rendered = FALSE
    /\ threw = FALSE
    /\ IdleBatch
    /\ IdleLesson
    /\ IdleEdit
    /\ IdleRest

NextFill == Render

\* the same renders for lessons whose lists reach past the grid
InitFillLong ==
    /\ IdleCart
    /\ articles \in ArticleCollections
    /\ activeLesson \in LongLessons
    /\ currentRelatedArticles = EmptyArray
    /\ rendered = FALSE
    /\ threw = FALSE
    /\ IdleBatch
    /\ IdleLesson
    /\ IdleEdit
    /\ IdleRest

NextFillLong == Render

SpecFillLong == InitFillLong /\ [][NextFillLong]_vars

\* the related-articles computation on every lesson and article collection
SpecFill == InitFill /\ [][NextFill]_vars

(***************************************************************************)
(* Properties of the cart                                                  *)
(***************************************************************************)

\* C1: after any sequence of addToCart, removeFromCart, updateCartQuantity
\* (any delta) and clear from the empty cart, every entry has quantity >= 1.
C1_QuantityAtLeastOne ==
    \A k \in 1..Len(cart) : cart[k].quantity >= 1

\* an updateCartQuantity that would have taken an entry below 1 has just run
C1_Witness ==
    /\ lastOp.op = "updateCartQuantity"
    /\ \E k \in 1..Len(prevCart) :
          /\ prevCart[k].product.id = lastOp.id
          /\ prevCart[k].quantity + lastOp.delta < 1
          /\ k <= Len(cart)
          /\ cart[k] = prevCart[k]

\* C2: after any sequence of cart operations from the empty cart, the cart
\* has at most one entry per distinct product id.
C2_UniqueProductIds ==
    \A i, j \in 1..Len(cart) : i # j => cart[i].product.id # cart[j].product.id

\* an addToCart of an object whose id is already in the cart, held there by a
\* different object, has just run
C2_Witness ==
    /\ lastOp.op = "addToCart"
    /\ Len(prevCart) >= 2
    /\ \E k \in 1..Len(prevCart) :
          /\ prevCart[k].product.id = lastOp.id
          /\ prevCart[k].product.table # lastOp.table
    /\ Len(cart) = Len(prevCart)

\* the cart before the last operation holds an entry for the operation's id
HadEntry == \E k \in 1..Len(prevCart) : prevCart[k].product.id = lastOp.id

\* C12: addToCart(product): if the cart has an entry for product.id, that
\* entry's quantity increases by exactly 1 and no entry is added; otherwise a
\* new entry with quantity 1 is appended at the end.
C12_AddIncrementsOrAppends ==
    lastOp.op = "addToCart" =>
        IF HadEntry
        THEN /\ Len(cart) = Len(prevCart)
             /\ \A k \in 1..Len(prevCart) :
                   IF prevCart[k].product.id = lastOp.id
                   THEN /\ cart[k].product = prevCart[k].product
                        /\ cart[k].quantity = prevCart[k].quantity + 1
                   ELSE cart[k] = prevCart[k]
        ELSE /\ Len(cart) = Len(prevCart) + 1
             /\ \A k \in 1..Len(prevCart) : cart[k] = prevCart[k]
             /\ cart[Len(cart)] =
                   [product |-> [id |-> lastOp.id, table |-> lastOp.table],
                    quantity |-> 1]

\* add(P) twice on the empty cart: a single entry for P with quantity 2
C12_Witness ==
    /\ lastOp.op = "addToCart"
    /\ Len(prevCart) = 1
    /\ prevCart[1].product.id = lastOp.id
    /\ prevCart[1].quantity = 1
    /\ Len(cart) = 1
    /\ cart[1].quantity = 2

\* C13: updateCartQuantity(productId, delta): if the entry exists and
\* quantity + delta >= 1 its quantity becomes quantity + delta; if
\* quantity + delta < 1 the entry stays with its quantity unchanged; if no
\* entry has productId the cart is unchanged.
C13_UpdateAddsDeltaOrKeeps ==
    lastOp.op = "updateCartQuantity" =>
        /\ Len(cart) = Len(prevCart)
        /\ \A k \in 1..Len(prevCart) :
              IF prevCart[k].product.id = lastOp.id
                    /\ prevCart[k].quantity + lastOp.delta >= 1
              THEN /\ cart[k].product = prevCart[k].product
                   /\ cart[k].quantity = prevCart[k].quantity + lastOp.delta
              ELSE cart[k] = prevCart[k]
        /\ ~HadEntry => cart = prevCart

\* a decrement of more than the quantity of an entry at quantity 1 left it at 1
C13_Witness ==
    /\ lastOp.op = "updateCartQuantity"
    /\ lastOp.delta < -1
    /\ \E k \in 1..Len(prevCart) :
          /\ prevCart[k].product.id = lastOp.id
          /\ prevCart[k].quantity = 1
          /\ Len(cart) = Len(prevCart)
          /\ cart[k].quantity = 1

\* the cart without its entries at the positions of the set drop
RECURSIVE Without(_, _)
Without(c, drop) ==
    IF Len(c) = 0 THEN <<>>
    ELSE LET rest == Without(SubSeq(c, 1, Len(c) - 1), drop)
         IN  IF Len(c) \in drop THEN rest ELSE Append(rest, c[Len(c)])

\* C14: removeFromCart(productId) removes the entry for productId whatever its
\* quantity and leaves the cart unchanged when no entry has that id.
C14_RemoveDropsEntry ==
    lastOp.op = "removeFromCart" =>
        /\ cart = Without(prevCart,
                      { k \in 1..Len(prevCart) : prevCart[k].product.id = lastOp.id })
        /\ ~HadEntry => cart = prevCart

\* add(P1), add(P2), remove(P1.id): only P2 is left, with quantity 1
C14_Witness ==
    /\ lastOp.op = "removeFromCart"
    /\ Len(prevCart) = 2
    /\ prevCart[1].product.id = lastOp.id
    /\ prevCart[1].quantity = 1
    /\ Len(cart) = 1
    /\ cart[1] = prevCart[2]
    /\ cart[1].quantity = 1
    /\ cartCount(cart) = 1

\* C17: removeFromCart is idempotent: for every cart and productId, applying
\* remove(productId) twice in a row yields the same cart as applying it once.
C17_RemoveIdempotent ==
    \A productId \in ProductIds :
        removeFromCart(removeFromCart(cart, productId), productId)
            = removeFromCart(cart, productId)

\* a remove has just dropped an entry of quantity 2 or more from a cart of two
\* entries, and removing it again changes nothing
C17_Witness ==
    /\ lastOp.op = "removeFromCart"
    /\ Len(prevCart) = 2
    /\ \E k \in 1..2 :
          /\ prevCart[k].product.id = lastOp.id
          /\ prevCart[k].quantity >= 2
    /\ Len(cart) = 1
    /\ removeFromCart(cart, lastOp.id) = cart

\* the product ids of a cart, in the cart's order
IdsOf(c) == [k \in 1..Len(c) |-> c[k].product.id]

\* the entries of a cart for other products than the last operation's
Others(c) == SelectSeq(c, LAMBDA item : item.product.id # lastOp.id)

\* C29: cart operations touch only their target: addToCart of a product
\* already in the cart and updateCartQuantity leave the set and relative
\* order of product ids and every other entry's quantity unchanged;
\* removeFromCart leaves every other entry, its quantity and the relative
\* order unchanged.
C29_OnlyTargetTouched ==
    /\ ((lastOp.op = "addToCart" /\ HadEntry) \/ lastOp.op = "updateCartQuantity") =>
          /\ IdsOf(cart) = IdsOf(prevCart)
          /\ \A k \in 1..Len(prevCart) :
                prevCart[k].product.id # lastOp.id => cart[k] = prevCart[k]
    /\ lastOp.op = "removeFromCart" => Others(cart) = Others(prevCart)

\* a product was added again to a cart of two entries while the other entry
\* had a quantity of 2 or more, which it kept
C29_Witness ==
    /\ lastOp.op = "addToCart"
    /\ HadEntry
    /\ Len(prevCart) = 2
    /\ \E k \in 1..2 :
          /\ prevCart[k].product.id # lastOp.id
          /\ prevCart[k].quantity >= 2
          /\ cart[k] = prevCart[k]
    /\ cartCount(cart) = cartCount(prevCart) + 1

\* totalCount(): the sum of the quantities of all entries
RECURSIVE TotalCount(_)
TotalCount(c) == IF Len(c) = 0 THEN 0 ELSE Head(c).quantity + TotalCount(Tail(c))

\* C15, as claimed: every cart badge count shown equals the sum of the
\* quantities of all cart entries, in every reachable cart state.  The
\* marketplace badge is shown when cartCount > 0, the floating button's badge
\* when cart.length > 0.
C15_BadgesShowTotalCount ==
    /\ cartCount(cart) > 0 => cartCount(cart) = TotalCount(cart)
    /\ Len(cart) > 0 => floatingCartBadge(cart) = TotalCount(cart)

\* C16: cart operations triggered in rapid succession are applied one at a
\* time in event order: once the queue is processed the cart equals the
\* sequential application of all triggered operations, so no update is lost.
C16_NoLostUpdate ==
    Len(pendingUpdates) = 0 => cart = sequentialCart

\* two add-to-cart clicks on the same product before a re-render, from the
\* empty cart: the quantity is 2
C16_Witness ==
    /\ lastOp.op = "render"
    /\ lastOp.delta = 2
    /\ clicks = 2
    /\ Len(prevCart) = 0
    /\ Len(cart) = 1
    /\ cart[1].quantity = 2

(***************************************************************************)
(* Properties of the related articles                                      *)
(***************************************************************************)

\* the lesson's preferred ids, and the slots of the grid
Preferred == ConfigIds(activeLesson)
Slots == 0..3

\* the preferred id at slot i is present and is the id of an article
Resolves(i) ==
    /\ i + 1 <= Len(Preferred)
    /\ Preferred[i + 1] # 0
    /\ \E k \in 1..Len(articles) : articles[k].id = Preferred[i + 1]

\* the article a resolving preferred id names
ArticleOf(id) == articles[CHOOSE k \in 1..Len(articles) : articles[k].id = id]

\* the slots the first pass leaves empty, and the articles it did not place
EmptySlots == { i \in Slots : ~Resolves(i) }
PlacedIds == { Preferred[i + 1] : i \in Slots \ EmptySlots }
Unused == LET placed == PlacedIds IN SelectSeq(articles, LAMBDA a : a.id \notin placed)

\* the rank of an empty slot among the empty slots, from 1
Rank(i) == Cardinality({ j \in 0..i : ~Resolves(j) })

\* the number of slots of the output holding the article with this id
Occurrences(id) ==
    Cardinality({ i \in DOMAIN currentRelatedArticles : currentRelatedArticles[i].id = id })

\* C3: with at least one article in the collection, the output has exactly 4
\* entries: slots 0..3 each hold an article and there is no slot beyond 3.
C3_ExactlyFourEntries ==
    (rendered /\ Len(articles) >= 1) =>
        /\ DOMAIN currentRelatedArticles = 0..3
        /\ Length(currentRelatedArticles) = 4
        /\ \A i \in 0..3 :
              \E k \in 1..Len(articles) : currentRelatedArticles[i] = articles[k]

\* a single article and no preferred id: every slot had to be filled
C3_Witness ==
    /\ rendered
    /\ Len(articles) = 1
    /\ Preferred = <<>>
    /\ DOMAIN currentRelatedArticles = 0..3

\* the same resolvable id stands at preferred positions i < j of the first 4
DuplicateAt(i, j) ==
    /\ i < j
    /\ Resolves(i)
    /\ Resolves(j)
    /\ Preferred[i + 1] = Preferred[j + 1]

\* there are at least as many unused articles as empty slots
EnoughUnused == Len(Unused) >= Cardinality(EmptySlots)

\* C4, as claimed: when the same resolvable id stands at two of the first 4
\* preferred positions, only the first occurrence is placed; the slot of the
\* second is filled from the filler queue and the article appears once in the
\* output (given enough other articles).
C4_SecondOccurrenceUnresolved ==
    rendered =>
        \A i, j \in Slots :
            (DuplicateAt(i, j) /\ Len(articles) >= 4) =>
                /\ currentRelatedArticles[j].id # Preferred[j + 1]
                /\ Occurrences(Preferred[i + 1]) = 1

\* C4, amended: when the same resolvable id stands at two of the first 4
\* preferred positions, both occurrences are placed at their slots, so the
\* article appears at both slots; given enough unused articles for the empty
\* slots it appears exactly as often as it is listed among the first 4.
C4_BothOccurrencesPlaced ==
    rendered =>
        \A i, j \in Slots :
            DuplicateAt(i, j) =>
                /\ currentRelatedArticles[i] = ArticleOf(Preferred[i + 1])
                /\ currentRelatedArticles[j] = ArticleOf(Preferred[i + 1])
                /\ EnoughUnused =>
                      Occurrences(Preferred[i + 1]) =
                          Cardinality({ s \in Slots : Resolves(s)
                                            /\ Preferred[s + 1] = Preferred[i + 1] })

\* a duplicate at positions 0 and 1 with four articles: the article is shown twice
C4_Witness ==
    /\ rendered
    /\ Len(articles) >= 4
    /\ DuplicateAt(0, 1)
    /\ EnoughUnused
    /\ Occurrences(Preferred[1]) = 2

\* C5: for each i in 0..3, if the preferred id at position i is present and is
\* the id of an article, slot i holds exactly that article and its id is
\* excluded from the filler queue.
C5_PreferredKeepsIndex ==
    rendered =>
        LET queue == Fillers(articles, FirstPass(Preferred, articles).usedIds)
        IN  \A i \in Slots :
                Resolves(i) =>
                    /\ currentRelatedArticles[i] = ArticleOf(Preferred[i + 1])
                    /\ \A k \in 1..Len(queue) : queue[k].id # Preferred[i + 1]

\* a preferred id resolves at slot 2 behind two positions that do not
C5_Witness ==
    /\ rendered
    /\ ~Resolves(0)
    /\ ~Resolves(1)
    /\ Resolves(2)
    /\ articles[1].id = Preferred[3]
    /\ currentRelatedArticles[2] = articles[1]

\* C6: the slots left empty by the first pass are filled in increasing index
\* order with the articles not placed by the first pass, in the collection's
\* order: the k-th empty slot receives the k-th unused article, while unused
\* articles remain.
C6_FillersInCollectionOrder ==
    rendered =>
        LET unused == Unused
        IN  \A i \in EmptySlots :
                Rank(i) <= Len(unused) => currentRelatedArticles[i] = unused[Rank(i)]

\* two empty slots around a placed one, filled by unused articles that stand
\* behind the placed article in the collection
C6_Witness ==
    /\ rendered
    /\ EmptySlots = {0, 2, 3}
    /\ Len(Unused) >= 2
    /\ articles[1].id = Preferred[2]
    /\ currentRelatedArticles[0] = Unused[1]
    /\ currentRelatedArticles[2] = Unused[2]

\* C7: when the unused articles run out before the 4 slots are filled and the
\* collection is non-empty, every remaining empty slot receives the first
\* article of the collection (repeats allowed).
C7_FallbackFirstArticle ==
    (rendered /\ Len(articles) >= 1) =>
        LET unused == Unused
        IN  \A i \in EmptySlots :
                Rank(i) > Len(unused) => currentRelatedArticles[i] = articles[1]

\* two articles, no preferred id: slots 2 and 3 both repeat the first article
C7_Witness ==
    /\ rendered
    /\ Len(articles) = 2
    /\ EmptySlots = Slots
    /\ currentRelatedArticles[2] = articles[1]
    /\ currentRelatedArticles[3] = articles[1]
    /\ currentRelatedArticles[0] = articles[1]

\* C8: when the collection is empty the output is 4 copies of the placeholder
\* (id 0, title 'No Article'), whatever the preferred id list contains.
C8_EmptyCollectionPlaceholders ==
    (rendered /\ Len(articles) = 0) =>
        /\ DOMAIN currentRelatedArticles = 0..3
        /\ \A i \in 0..3 :
              /\ currentRelatedArticles[i].id = 0
              /\ currentRelatedArticles[i].title = "No Article"

\* an empty collection under a lesson with preferred ids
C8_Witness ==
    /\ rendered
    /\ Len(articles) = 0
    /\ Len(Preferred) = 4
    /\ \A k \in 1..4 : Preferred[k] # 0
    /\ currentRelatedArticles[3].id = 0

UniqueArticleIds ==
    \A i, j \in 1..Len(articles) : i # j => articles[i].id # articles[j].id

\* C9: with no preferred ids and at least 4 articles with unique ids, the
\* output is 4 pairwise distinct articles, all members of the collection.
C9_FourDistinctArticles ==
    (rendered /\ Len(Preferred) = 0 /\ Len(articles) >= 4 /\ UniqueArticleIds) =>
        /\ DOMAIN currentRelatedArticles = 0..3
        /\ \A i, j \in 0..3 :
              i # j => currentRelatedArticles[i] # currentRelatedArticles[j]
        /\ \A i \in 0..3 :
              \E k \in 1..Len(articles) : currentRelatedArticles[i] = articles[k]

\* a lesson without the related_articles field over four articles
C9_Witness ==
    /\ rendered
    /\ "related_articles" \notin DOMAIN activeLesson
    /\ Len(articles) >= 4
    /\ Cardinality({ currentRelatedArticles[i] : i \in 0..3 }) = 4

\* C10: when the preferred list is exactly one valid id [a.id] and the
\* collection has at least 4 articles with unique ids, slot 0 is a and none of
\* slots 1..3 is a.
C10_SinglePreferredOnce ==
    (rendered /\ Len(Preferred) = 1 /\ Resolves(0) /\ Len(articles) >= 4
        /\ UniqueArticleIds) =>
        /\ currentRelatedArticles[0] = ArticleOf(Preferred[1])
        /\ \A i \in 1..3 : currentRelatedArticles[i] # ArticleOf(Preferred[1])

\* the single preferred id names the first article of the collection
C10_Witness ==
    /\ rendered
    /\ Len(Preferred) = 1
    /\ Resolves(0)
    /\ Len(articles) >= 4
    /\ articles[1].id = Preferred[1]
    /\ currentRelatedArticles[0] = articles[1]
    /\ currentRelatedArticles[1] = articles[2]

\* the active lesson with its preferred ids cut to the 4 of the grid
FirstFour ==
    [id |-> 1,
     related_articles |-> SubSeq(Preferred, 1, IF Len(Preferred) < 4 THEN Len(Preferred) ELSE 4)]

\* C30: whenever the collection is non-empty every one of the 4 output
\* entries is a member of the collection: the placeholder (id 0) never
\* appears, and preferred ids at positions 4 and beyond never influence the
\* output.
C30_OutputFromCollection ==
    (rendered /\ Len(articles) >= 1) =>
        /\ \A i \in DOMAIN currentRelatedArticles :
              /\ currentRelatedArticles[i].id # 0
              /\ currentRelatedArticles[i] # NoArticle
              /\ \E k \in 1..Len(articles) : currentRelatedArticles[i] = articles[k]
        /\ Cardinality(DOMAIN currentRelatedArticles) = 4
        /\ Len(Preferred) > 4 =>
              currentRelatedArticles = RelatedArticles(FirstFour, articles)

\* two articles, five preferred entries of which only the one at position 4
\* names an article: the first pass placed nothing and the last two slots
\* repeat the first article of the collection
C30_Witness ==
    /\ rendered
    /\ Len(articles) = 2
    /\ Len(Preferred) = 5
    /\ \A i \in 1..4 : Preferred[i] = 0
    /\ \E k \in 1..2 : articles[k].id = Preferred[5]
    /\ currentRelatedArticles[0] = articles[1]
    /\ currentRelatedArticles[1] = articles[2]
    /\ currentRelatedArticles[2] = articles[1]
    /\ currentRelatedArticles[3] = articles[1]

(***************************************************************************)
(* Properties of the lesson lock                                           *)
(***************************************************************************)

\* C19: without a user profile the lessons at list index >= 4 are locked and
\* those at index 0..3 are free: a click on a locked lesson opens the auth
\* overlay and leaves the current lesson id unchanged; a click on an unlocked
\* lesson makes it the current lesson and closes the sidebar.  With a profile
\* no lesson is locked.
C19_LockedLessonsOpenAuth ==
    lastEvent.type = "lessonClick" =>
        IF userProfile = "null" /\ lastEvent.index >= 4
        THEN /\ isAuthOpen
             /\ currentLessonId = lastEvent.before
        ELSE /\ currentLessonId = lessons[lastEvent.index + 1].id
             /\ ~isSidebarOpen

\* a visitor without a profile, the sidebar open, has just clicked the lesson
\* at index 4: the overlay is open and the current lesson is another one
C19_Witness ==
    /\ lastEvent.type = "lessonClick"
    /\ lastEvent.index = 4
    /\ userProfile = "null"
    /\ isSidebarOpen
    /\ isAuthOpen
    /\ currentLessonId # lessons[5].id

\* the JavaScript index in lessons of the lesson displayed
ActiveIndex ==
    (CHOOSE k \in 1..Len(lessons) : lessons[k] = ActiveLesson(lessons, currentLessonId)) - 1

\* C23, as claimed: while no user profile is set the lesson displayed is one
\* of the first 4 of the list, whatever clicks, sign-ins and sign-outs came
\* before.
C23_SignedOutViewsFreeLesson ==
    userProfile = "null" => ActiveIndex < FreeLessons

(***************************************************************************)
(* Properties of lesson editing                                            *)
(***************************************************************************)

\* C20, as claimed: handleUpdateLesson applies the edit to the local lessons
\* at once, before the backend answers; if the update reports an error a
\* re-fetch is triggered, and after it the local lessons equal the backend's
\* lessons (stated for a table that has rows).
C20_EditRevertedAfterError ==
    /\ lastEvent.type = "handleUpdateLesson" =>
          /\ \E r \in requests : r.kind = "update" /\ r.n = edits
          /\ \A k \in 1..Len(lessons) :
                lessons[k].id = lastEvent.id => lessons[k].title = lastEvent.title
    /\ lastEvent.type = "updateError" =>
          \E r \in requests : r.kind = "fetch"
    /\ (lastEvent.type = "fetchApplied" /\ backendLessons # <<>>) =>
          lessons = backendLessons

C24_QuiescentLessonsMatchBackend ==
    (/\ requests = {}
     /\ lastEvent.type = "fetchApplied"
     /\ lastEvent.data # <<>>) => lessons = backendLessons

(***************************************************************************)
(* Properties of authentication                                            *)
(***************************************************************************)

\* C25, as claimed: after a SIGNED_OUT event the user profile is null and
\* stays null until a later SIGNED_IN, TOKEN_REFRESHED or USER_UPDATED event:
\* a profile fetch started before the sign-out and completing after it does
\* not set the profile again.
C25_SignedOutProfileStaysNull ==
    lastAuthEvent = "SIGNED_OUT" => userProfile = "null"

(***************************************************************************)
(* Properties of the marketplace and of the article search                 *)
(***************************************************************************)

\* the products from which a category name of the list was derived
DerivedFrom(cat) ==
    { k \in 1..Len(products) :
        TruthyText(products[k].category) /\ trim(products[k].category) = cat }

\* C26, as claimed: with an empty search query every category offered in the
\* category list shows, once selected, a non-empty result holding every
\* product from which that name was derived, the products whose stored
\* category has leading or trailing white space included.
C26_OfferedCategoryShowsItsProducts ==
    (searchQuery = <<>> /\ selectedCategory \in dynamicCategories(products)) =>
        /\ Len(filteredProducts) > 0
        /\ \A k \in DerivedFrom(selectedCategory) :
              \E j \in 1..Len(filteredProducts) : filteredProducts[j] = products[k]

\* the lower-cased localized text of a field, a missing field being empty
LowerText(item, field) ==
    LET v == getData(lang, item, field)
    IN  IF v = Null THEN <<>> ELSE [k \in 1..Len(v) |-> LowerChar(v[k])]

\* the query is part of one of the two texts, lower case against lower case
Contains(item, q, field1, field2) ==
    LET lowerQ == [k \in 1..Len(q) |-> LowerChar(q[k])]
    IN  \/ includes(LowerText(item, field1), lowerQ)
        \/ includes(LowerText(item, field2), lowerQ)

\* shown is list cut down to the positions of keep, in the order of list
ExactlyInOrder(shown, list, keep) ==
    /\ Len(shown) = Cardinality(keep)
    /\ \A k \in keep : shown[Cardinality({ j \in keep : j <= k })] = list[k]

\* the positions of the products that pass both filters
PassBoth ==
    { k \in 1..Len(products) :
        /\ \/ searchQuery = <<>>
           \/ Contains(products[k], searchQuery, "title", "description_short")
        /\ \/ selectedCategory = All
           \/ products[k].category = selectedCategory }

\* C27: the product list shown is exactly the products, in their original
\* order, that satisfy both filters: (query empty, or the lower-cased
\* localized title or short description contains the lower-cased query) and
\* (category 'all', or the product's category equals the selected one);
\* with an empty query and category 'all' every product is shown.
C27_ShownProductsPassBothFilters ==
    /\ ExactlyInOrder(filteredProducts, products, PassBoth)
    /\ (searchQuery = <<>> /\ selectedCategory = All) => filteredProducts = products

\* two products of the selected category, an upper-case query found in the
\* short description of the second only: that product alone is shown
C27_Witness ==
    /\ Len(products) = 2
    /\ selectedCategory = <<"b">>
    /\ searchQuery = <<"B">>
    /\ lang = "ru"
    /\ products[1].category = <<"b">>
    /\ products[2].category = <<"b">>
    /\ ~includes(toLowerCase(products[2].title), <<"b">>)
    /\ products[2].description_short = <<"b">>
    /\ filteredProducts = <<products[2]>>

\* the positions of the articles the query is found in
Found ==
    { k \in 1..Len(articleList) :
        Contains(articleList[k], articleQuery, "title", "description") }

\* C28: the articles shown are all articles when the query is empty;
\* otherwise exactly the articles, in original order, whose lower-cased
\* localized title or description contains the lower-cased query, a missing
\* title or description counting as empty text instead of causing a failure.
C28_ShownArticlesContainQuery ==
    /\ ~filterThrew
    /\ articleQuery = <<>> => filteredArticles = articleList
    /\ articleQuery # <<>> => ExactlyInOrder(filteredArticles, articleList, Found)

\* an article without title and description and one found by its translated
\* title, searched in English with an upper-case query: the second alone is
\* shown
C28_Witness ==
    /\ ~filterThrew
    /\ lang = "en"
    /\ articleQuery = <<"B">>
    /\ Len(articleList) = 2
    /\ articleList[1].title = Null
    /\ articleList[1].description = Null
    /\ articleList[2].title_en = <<"B">>
    /\ filteredArticles = <<articleList[2]>>

====
